---- MODULE Spec2Model ----
(***************************************************************************)
(* A model of the ARXML generation, validation and merge engine of         *)
(* server/autosar_utils.py (and of the request checks of server/app.py).   *)
(*                                                                         *)
(* An element tree (lxml) is a heap: a sequence of nodes, a node's id      *)
(* being its index.  A node carries its lxml tag ("{namespace}local" or    *)
(* "local"), the default namespace it declares, its other attributes as    *)
(* rendered text, its text ("" stands for None), its parent and the ids of *)
(* its children in order.                                                  *)
(*                                                                         *)
(* A document text is a record [decl, toks]: whether an XML declaration    *)
(* leads it, and the sequence of its markup tokens in document order.  An  *)
(* "elem" token is one element (local name, xmlns declaration, attributes, *)
(* text, nesting depth); a "junk" token is markup that is not well formed. *)
(* Serialising writes local names and declarations, parsing resolves the   *)
(* namespace of every element from the declarations in scope, so a tree    *)
(* does not survive a round trip unchanged: the builder's unqualified      *)
(* elements come back namespace-qualified.                                 *)
(***************************************************************************)
EXTENDS Integers, Sequences, FiniteSets, TLC

VARIABLES call, ret, arxml, tree

\* For the calls in flight at the same time in the threads of the server:
\* the heap of the process, in which every call allocates its nodes, and
\* each thread's call, position, local variables and result.
VARIABLES mem, thr

vars == <<call, ret, arxml, tree, mem, thr>>

(***************************************************************************)
(* Bounds of the model                                                     *)
(***************************************************************************)
MaxObjects == 3
MaxBlocks == 3
MaxModules == 2
MaxPackages == 3

(***************************************************************************)
(* Strings                                                                 *)
(***************************************************************************)
StartsWith(s, pre) == Len(s) >= Len(pre) /\ SubSeq(s, 1, Len(pre)) = pre

EndsWith(s, suf) ==
    Len(s) >= Len(suf) /\ SubSeq(s, Len(s) - Len(suf) + 1, Len(s)) = suf

Contains(s, sub) ==
    \E i \in 1..(Len(s) - Len(sub) + 1) : SubSeq(s, i, i + Len(sub) - 1) = sub

\* The part of an lxml tag after its "{namespace}" prefix.
LocalName(tag) ==
    IF StartsWith(tag, "{")
    THEN LET close == CHOOSE i \in 1..Len(tag) :
                          /\ SubSeq(tag, i, i) = "}"
                          /\ \A j \in 1..(i - 1) : SubSeq(tag, j, j) # "}"
         IN SubSeq(tag, close + 1, Len(tag))
    ELSE tag

QName(ns, local) == IF ns = "" THEN local ELSE "{" \o ns \o "}" \o local

HexDigit(d) == SubSeq("0123456789abcdef", d + 1, d + 1)

RECURSIVE HexDigits(_)
HexDigits(n) == IF n < 16 THEN HexDigit(n) ELSE HexDigits(n \div 16) \o HexDigit(n % 16)

\* Python's hex() of a non-negative integer.
hex(n) == "0x" \o HexDigits(n)

(***************************************************************************)
(* Evaluation: Bind(x, F) is F(x) with x evaluated once.                   *)
(***************************************************************************)
Bind(x, F(_)) == CHOOSE r \in { F(y) : y \in {x} } : TRUE

(***************************************************************************)
(* ARXMLGenerator: namespaces, schema locations, tree construction.        *)
(* A function body runs on a frame [h, v, log]: the heap, the local        *)
(* variables that name nodes of it, and the warnings logged.  A statement  *)
(* takes a frame to the next one.                                          *)
(***************************************************************************)
AutosarNs == "http://autosar.org/schema/r4.0"
XsiNs == "http://www.w3.org/2001/XMLSchema-instance"

NAMESPACES == [default |-> AutosarNs, xsi |-> XsiNs]

SCHEMA_LOCATIONS(version) ==
    CASE version = "4.0.3" -> "AUTOSAR_4-0-3.xsd"
      [] version = "4.2.2" -> "AUTOSAR_4-2-2.xsd"
      [] version = "4.3.1" -> "AUTOSAR_00048.xsd"
      [] version = "4.4.0" -> "AUTOSAR_00050.xsd"
      [] OTHER -> "AUTOSAR_4-2-2.xsd"

\* ARXMLGenerator(autosar_version)
ARXMLGenerator(autosar_version) ==
    [version |-> autosar_version, schema_location |-> SCHEMA_LOCATIONS(autosar_version)]

DefaultVersion == "4.2.2"

Node(tag, nsdef, attrs, text, parent) ==
    [tag |-> tag, nsdef |-> nsdef, attrs |-> attrs, text |-> text,
     parent |-> parent, kids |-> <<>>]

\* var = etree.SubElement(parent, tag), and var.text = text: the new node is
\* the last child of the node the variable parent names.
SubElement(s0, var, parent, tag, text) ==
    Bind(s0, LAMBDA s :
        [s EXCEPT
           !.h = Append([@ EXCEPT ![s.v[parent]].kids = Append(@, Len(s.h) + 1)],
                        Node(tag, "", "", text, s.v[parent])),
           !.v = (var :> (Len(s.h) + 1)) @@ @])

\* var = generator.create_root(): a new tree of one node.
create_root(generator, var) ==
    [h |-> << Node("AUTOSAR", NAMESPACES.default,
                   " xmlns:xsi=\"" \o NAMESPACES.xsi \o "\" xsi:schemaLocation=\""
                       \o AutosarNs \o " " \o generator.schema_location \o "\"",
                   "", 0) >>,
     v |-> (var :> 1),
     log |-> <<>>]

\* generator.add_admin_data(parent, doc_revision); now is the clock's reading.
add_admin_data(s0, parent, doc_revision, now) ==
    LET s1 == SubElement(s0, "admin_data", parent, "ADMIN-DATA", "")
        s2 == SubElement(s1, "doc_revisions", "admin_data", "DOC-REVISIONS", "")
        s3 == SubElement(s2, "doc_revision_elem", "doc_revisions", "DOC-REVISION", "")
        s4 == SubElement(s3, "_", "doc_revision_elem", "REVISION-LABEL", doc_revision)
    IN SubElement(s4, "_", "doc_revision_elem", "DATE", now)

\* parent.find(tag): the first child of the node with exactly that tag, 0 for None.
Find(h, node, tag) ==
    LET hits == { i \in 1..Len(h[node].kids) : h[h[node].kids[i]].tag = tag }
    IN IF hits = {} THEN 0
       ELSE h[node].kids[CHOOSE i \in hits : \A j \in hits : i <= j]

\* A variant of create_ar_package that never looks for the container and
\* makes a new one on every call.
create_ar_package_new_container(s0, target, parent, short_name) ==
    LET s1 == SubElement(s0, "ar_packages", parent, "AR-PACKAGES", "")
        s2 == SubElement(s1, "ar_package", "ar_packages", "AR-PACKAGE", "")
        s3 == SubElement(s2, "_", "ar_package", "SHORT-NAME", short_name)
    IN Bind(s3, LAMBDA s : [s EXCEPT !.v = (target :> s.v["ar_package"]) @@ @])

\* target = generator.create_ar_package(parent, short_name)
create_ar_package(s0, target, parent, short_name) ==
    LET s1 == Bind(s0, LAMBDA s :
                  IF Find(s.h, s.v[parent], "AR-PACKAGES") = 0
                  THEN SubElement(s, "ar_packages", parent, "AR-PACKAGES", "")
                  ELSE [s EXCEPT !.v = ("ar_packages" :>
                            Find(s.h, s.v[parent], "AR-PACKAGES")) @@ @])
        s2 == SubElement(s1, "ar_package", "ar_packages", "AR-PACKAGE", "")
        s3 == SubElement(s2, "_", "ar_package", "SHORT-NAME", short_name)
    IN Bind(s3, LAMBDA s : [s EXCEPT !.v = (target :> s.v["ar_package"]) @@ @])

(***************************************************************************)
(* Serialising and parsing                                                 *)
(***************************************************************************)
ElemTok(name, xmlns, attrs, text, depth) ==
    [kind |-> "elem", name |-> name, xmlns |-> xmlns, attrs |-> attrs,
     text |-> text, depth |-> depth]

JunkTok(raw) ==
    [kind |-> "junk", name |-> "", xmlns |-> "", attrs |-> "", text |-> raw, depth |-> 0]

RECURSIVE Emit(_, _, _), EmitAll(_, _, _)
Emit(h, id, depth) ==
    << ElemTok(LocalName(h[id].tag), h[id].nsdef, h[id].attrs, h[id].text, depth) >>
        \o EmitAll(h, h[id].kids, depth + 1)
EmitAll(h, ks, depth) ==
    IF ks = <<>> THEN <<>>
    ELSE Emit(h, Head(ks), depth) \o EmitAll(h, Tail(ks), depth)

\* ARXMLGenerator.to_string: the text of the tree under root, led by an XML
\* declaration.  An element is written with its local name and the namespace
\* it declares itself.
to_string(h0, root) ==
    Bind(h0, LAMBDA h : [decl |-> TRUE, toks |-> Emit(h, root, 0)])

\* Why etree.fromstring rejects the text; "" when it parses.
ParseError(text) ==
    LET toks == text.toks
    IN IF toks = <<>> THEN "Document is empty, line 1, column 1"
       ELSE IF \E i \in 1..Len(toks) : toks[i].kind = "junk"
       THEN "Couldn't find end of Start Tag, line 1, column 9"
       ELSE IF \E i \in 2..Len(toks) : toks[i].depth = 0
       THEN "Extra content at the end of the document, line 2, column 1"
       ELSE ""

\* The position of the token that encloses token i, 0 for the root's.
ParentPos(toks, i) ==
    IF toks[i].depth = 0 THEN 0
    ELSE LET up == { j \in 1..(i - 1) : toks[j].depth = toks[i].depth - 1 }
         IN CHOOSE j \in up : \A k \in up : k <= j

\* The default namespace in scope at token i: the nearest declaration on the
\* way up from it; parents[i] is the position of the token that encloses i.
RECURSIVE NsInScope(_, _, _)
NsInScope(toks, parents, i) ==
    IF toks[i].xmlns # "" THEN toks[i].xmlns
    ELSE IF parents[i] = 0 THEN ""
    ELSE NsInScope(toks, parents, parents[i])

\* The members of a set of numbers in increasing order.
RECURSIVE Sorted(_)
Sorted(S) ==
    IF S = {} THEN <<>>
    ELSE LET m == CHOOSE x \in S : \A y \in S : x <= y
         IN << m >> \o Sorted(S \ {m})

\* etree.fromstring of a text that parses: node i is the element of token i,
\* in the default namespace in scope where it stands.
Parse(text0) ==
    Bind(text0, LAMBDA text :
      Bind([ i \in 1..Len(text.toks) |-> ParentPos(text.toks, i) ] \o <<>>,
           LAMBDA parents :
             [ i \in 1..Len(text.toks) |->
                 [tag |-> QName(NsInScope(text.toks, parents, i), text.toks[i].name),
                  nsdef |-> text.toks[i].xmlns,
                  attrs |-> text.toks[i].attrs,
                  text |-> text.toks[i].text,
                  parent |-> parents[i],
                  kids |-> Sorted({ j \in (i + 1)..Len(parents) : parents[j] = i })] ]
             \o <<>>))

\* The descendants of a node in document order (the node itself excluded):
\* what findall(".//...") walks.
RECURSIVE DescendantsAll(_, _)
DescendantsAll(h, ks) ==
    IF ks = <<>> THEN <<>>
    ELSE << Head(ks) >> \o DescendantsAll(h, h[Head(ks)].kids)
                        \o DescendantsAll(h, Tail(ks))

Descendants(h0, id) == Bind(h0, LAMBDA h : DescendantsAll(h, h[id].kids))

\* root.findall(".//tag"): the descendants with exactly that tag.
FindAll(h0, root, tag) ==
    Bind(h0, LAMBDA h : SelectSeq(Descendants(h, root), LAMBDA id : h[id].tag = tag))

(***************************************************************************)
(* Timing Resolver                                                         *)
(***************************************************************************)
Timing(prop_seg, phase_seg1, phase_seg2, sjw) ==
    [prop_seg |-> prop_seg, phase_seg1 |-> phase_seg1,
     phase_seg2 |-> phase_seg2, sjw |-> sjw]

timing_configs(baudrate_kbps) ==
    CASE baudrate_kbps = 125 -> Timing(6, 7, 2, 1)
      [] baudrate_kbps = 250 -> Timing(6, 7, 2, 1)
      [] baudrate_kbps = 500 -> Timing(6, 7, 2, 1)
      [] baudrate_kbps = 1000 -> Timing(5, 6, 2, 1)

TimingKeys == {125, 250, 500, 1000}

\* A variant of calculate_can_timing whose fallback is the 1000 kbps entry.
calculate_can_timing_fallback_1000(baudrate_kbps) ==
    IF baudrate_kbps \in TimingKeys THEN timing_configs(baudrate_kbps)
    ELSE timing_configs(1000)

\* timing_configs.get(baudrate_kbps, timing_configs[500])
calculate_can_timing(baudrate_kbps) ==
    IF baudrate_kbps \in TimingKeys THEN timing_configs(baudrate_kbps)
    ELSE timing_configs(500)

(***************************************************************************)
(* Parameter records.  A record carries a value for every field and, in    *)
(* has, the keys the caller's dictionary holds; the value of an absent key *)
(* is never read.                                                          *)
(***************************************************************************)
Has(params, key) == key \in params.has

\* params.get(key, default)
Get(params, key, default) == IF Has(params, key) THEN params[key] ELSE default

EmptyString == [decl |-> FALSE, toks |-> <<>>]

\* What a call of a generator leaves: the text it returns, or the exception
\* it raises; built is the number of tree nodes it had constructed by then.
Returned(s0) ==
    Bind(s0, LAMBDA s : [raised |-> FALSE, exc |-> "",
                         arxml |-> to_string(s.h, s.v["root"]), built |-> Len(s.h)])

Raised(exc, built) ==
    [raised |-> TRUE, exc |-> exc, arxml |-> EmptyString, built |-> built]

(***************************************************************************)
(* CAN Config Generator                                                    *)
(***************************************************************************)
\* The body of the message-object loop for index i.
\* A variant of the loop body in which every object transmits.
HwObject_all_transmit(s0, i) ==
    LET s1 == SubElement(s0, "msg_obj", "can_controller", "CAN-HW-OBJECT", "")
        s2 == SubElement(s1, "_", "msg_obj", "SHORT-NAME", "CanHwObject_" \o ToString(i))
        s3 == SubElement(s2, "_", "msg_obj", "OBJECT-TYPE", "TRANSMIT")
        s4 == SubElement(s3, "_", "msg_obj", "ID-TYPE", "STANDARD")
    IN SubElement(s4, "_", "msg_obj", "CAN-OBJECT-ID", ToString(256 + i))

HwObject(s0, i) ==
    LET s1 == SubElement(s0, "msg_obj", "can_controller", "CAN-HW-OBJECT", "")
        s2 == SubElement(s1, "_", "msg_obj", "SHORT-NAME", "CanHwObject_" \o ToString(i))
        s3 == SubElement(s2, "_", "msg_obj", "OBJECT-TYPE",
                         IF i % 2 = 0 THEN "TRANSMIT" ELSE "RECEIVE")
        s4 == SubElement(s3, "_", "msg_obj", "ID-TYPE", "STANDARD")
    IN SubElement(s4, "_", "msg_obj", "CAN-OBJECT-ID", ToString(256 + i))

\* for i in range(n), from index i on.
RECURSIVE HwObjects(_, _, _)
HwObjects(s0, i, n) ==
    Bind(s0, LAMBDA s : IF i >= n THEN s ELSE HwObjects(HwObject(s, i), i + 1, n))

ErrorHandling(s0) ==
    LET s1 == SubElement(s0, "error_config", "can_controller", "CAN-ERROR-HANDLING", "")
        s2 == SubElement(s1, "_", "error_config", "BUS-OFF-RECOVERY", "AUTOMATIC")
        s3 == SubElement(s2, "_", "error_config", "ERROR-PASSIVE-MODE", "ENABLED")
    IN SubElement(s3, "_", "error_config", "ERROR-WARNING-THRESHOLD", "96")

WakeupSupport(s0) ==
    LET s1 == SubElement(s0, "wakeup_config", "can_controller", "CAN-WAKEUP-SUPPORT", "")
        s2 == SubElement(s1, "_", "wakeup_config", "WAKEUP-ENABLED", "true")
    IN SubElement(s2, "_", "wakeup_config", "WAKEUP-FILTER-ENABLED", "true")

\* The function up to the message-object loop (lines 107-129).
CanHead(params, now) ==
    LET timing_params == calculate_can_timing(params.baudrate)
        s0 == create_root(ARXMLGenerator(DefaultVersion), "root")
        s1 == add_admin_data(s0, "root", "1.0.0", now)
        s2 == create_ar_package(s1, "can_package", "root", "CanConfiguration")
        s3 == SubElement(s2, "elements", "can_package", "ELEMENTS", "")
        s4 == SubElement(s3, "can_controller", "elements", "CAN-CONTROLLER", "")
        s5 == SubElement(s4, "_", "can_controller", "SHORT-NAME",
                         "CanController_" \o params.ecuType)
        s6 == SubElement(s5, "baudrate_config", "can_controller",
                         "CAN-CONTROLLER-BAUDRATE-CONFIG", "")
        s7 == SubElement(s6, "_", "baudrate_config", "BAUDRATE",
                         ToString(params.baudrate * 1000))
        s8 == SubElement(s7, "_", "baudrate_config", "PROP-SEG",
                         ToString(timing_params.prop_seg))
        s9 == SubElement(s8, "_", "baudrate_config", "PHASE-SEG1",
                         ToString(timing_params.phase_seg1))
        s10 == SubElement(s9, "_", "baudrate_config", "PHASE-SEG2",
                          ToString(timing_params.phase_seg2))
    IN SubElement(s10, "_", "baudrate_config", "SYNC-JUMP-WIDTH",
                  ToString(timing_params.sjw))

\* The function from the message-object loop on (lines 132-152).
CanTail(s0, params) ==
    Bind(HwObjects(s0, 0, params.messageObjects), LAMBDA s1 :
        LET s2 == IF Get(params, "errorHandling", TRUE) THEN ErrorHandling(s1) ELSE s1
        IN IF Get(params, "wakeupSupport", FALSE) THEN WakeupSupport(s2) ELSE s2)

generate_can_config(params, now) ==
    IF ~Has(params, "ecuType") \/ ~Has(params, "baudrate")
    THEN Raised("KeyError", 0)                       \* the log line, line 104
    ELSE IF ~Has(params, "messageObjects")           \* range(params[...]), line 132
    THEN Raised("KeyError", Len(CanHead(params, now).h))
    ELSE Returned(CanTail(CanHead(params, now), params))

(***************************************************************************)
(* NvM Config Generator                                                    *)
(***************************************************************************)
write_strategy_map(strategy) ==
    CASE strategy = "immediate" -> "NVM_WRITE_BLOCK_ONCE"
      [] strategy = "deferred" -> "NVM_WRITE_BLOCK_CYCLIC"
      [] strategy = "triggered" -> "NVM_WRITE_BLOCK_TRIGGERED"
      [] OTHER -> "NVM_WRITE_BLOCK_CYCLIC"

\* The block loop's body up to the read of params['writeStrategy'].
NvmBlockHead(s0, params, i) ==
    LET s1 == SubElement(s0, "block", "blocks_container", "NVM-BLOCK", "")
        s2 == SubElement(s1, "_", "block", "SHORT-NAME", "NvMBlock_" \o ToString(i))
        s3 == SubElement(s2, "_", "block", "NVM-BLOCK-ID", ToString(i + 1))
    IN SubElement(s3, "_", "block", "NVM-BLOCK-LENGTH", ToString(params.blockSize))

\* The rest of the body.
\* A variant of the second half of the loop body whose storage address is
\* the block's index, the block size forgotten.
NvmBlockTail_address_by_index(s0, params, i) ==
    LET s1 == SubElement(s0, "_", "block", "NVM-WRITE-STRATEGY",
                         write_strategy_map(params.writeStrategy))
        s2 == IF Get(params, "crcProtection", TRUE)
              THEN SubElement(SubElement(s1, "crc_config", "block",
                                         "NVM-BLOCK-CRC-TYPE", ""),
                              "_", "crc_config", "CRC-TYPE", "NVM_CRC_16")
              ELSE s1
        s3 == IF Get(params, "redundancy", FALSE)
              THEN SubElement(SubElement(s2, "redundancy_config", "block",
                                         "NVM-REDUNDANCY", ""),
                              "_", "redundancy_config", "REDUNDANT-BLOCK-COUNT", "1")
              ELSE s2
        s4 == SubElement(s3, "storage", "block", "NVM-BLOCK-STORAGE", "")
        s5 == SubElement(s4, "_", "storage", "STORAGE-DEVICE", "EEPROM")
    IN SubElement(s5, "_", "storage", "STORAGE-ADDRESS", hex(i))

NvmBlockTail(s0, params, i) ==
    LET s1 == SubElement(s0, "_", "block", "NVM-WRITE-STRATEGY",
                         write_strategy_map(params.writeStrategy))
        s2 == IF Get(params, "crcProtection", TRUE)
              THEN SubElement(SubElement(s1, "crc_config", "block",
                                         "NVM-BLOCK-CRC-TYPE", ""),
                              "_", "crc_config", "CRC-TYPE", "NVM_CRC_16")
              ELSE s1
        s3 == IF Get(params, "redundancy", FALSE)
              THEN SubElement(SubElement(s2, "redundancy_config", "block",
                                         "NVM-REDUNDANCY", ""),
                              "_", "redundancy_config", "REDUNDANT-BLOCK-COUNT", "1")
              ELSE s2
        s4 == SubElement(s3, "storage", "block", "NVM-BLOCK-STORAGE", "")
        s5 == SubElement(s4, "_", "storage", "STORAGE-DEVICE", "EEPROM")
    IN SubElement(s5, "_", "storage", "STORAGE-ADDRESS", hex(i * params.blockSize))

\* for i in range(n), from index i on; the frame, and whether the read of
\* params['writeStrategy'] raised.
RECURSIVE NvmBlocks(_, _, _, _)
NvmBlocks(s0, params, i, n) ==
    Bind(s0, LAMBDA s :
        IF i >= n THEN [s |-> s, raised |-> FALSE]
        ELSE IF ~Has(params, "writeStrategy")
        THEN [s |-> NvmBlockHead(s, params, i), raised |-> TRUE]
        ELSE NvmBlocks(NvmBlockTail(NvmBlockHead(s, params, i), params, i),
                       params, i + 1, n))

WearLeveling(s0) ==
    LET s1 == SubElement(s0, "wear_config", "nvm_config", "NVM-WEAR-LEVELING", "")
        s2 == SubElement(s1, "_", "wear_config", "WEAR-LEVELING-ENABLED", "true")
    IN SubElement(s2, "_", "wear_config", "WEAR-LEVELING-THRESHOLD", "1000")

\* The function up to the block loop (lines 174-187).
NvmHead(now) ==
    LET s0 == create_root(ARXMLGenerator(DefaultVersion), "root")
        s1 == add_admin_data(s0, "root", "1.0.0", now)
        s2 == create_ar_package(s1, "nvm_package", "root", "NvMConfiguration")
        s3 == SubElement(s2, "elements", "nvm_package", "ELEMENTS", "")
        s4 == SubElement(s3, "nvm_config", "elements", "NVM-BLOCK-DESCRIPTOR", "")
        s5 == SubElement(s4, "_", "nvm_config", "SHORT-NAME", "NvMBlockConfiguration")
    IN SubElement(s5, "blocks_container", "nvm_config", "NVM-BLOCKS", "")

generate_nvm_config(params, now) ==
    IF ~Has(params, "blockCount") \/ ~Has(params, "blockSize")
    THEN Raised("KeyError", 0)                       \* the log line, line 171
    ELSE Bind(NvmBlocks(NvmHead(now), params, 0, params.blockCount), LAMBDA loop :
            IF loop.raised
            THEN Raised("KeyError", Len(loop.s.h))   \* params['writeStrategy'], line 202
            ELSE Returned(IF Get(params, "wearLeveling", TRUE)
                          THEN WearLeveling(loop.s) ELSE loop.s))

(***************************************************************************)
(* Validator                                                               *)
(***************************************************************************)
RECURSIVE SumTo(_, _)
SumTo(f, n) == IF n = 0 THEN 0 ELSE f[n] + SumTo(f, n - 1)

\* The characters a token takes in the text: an element with children is a
\* start tag and an end tag on lines of their own, a leaf is one line.
TokLen(toks, i) ==
    LET t == toks[i]
        open == Len(t.name) + Len(t.attrs)
                  + (IF t.xmlns = "" THEN 0 ELSE Len(t.xmlns) + 9)
        nested == i < Len(toks) /\ toks[i + 1].depth = t.depth + 1
    IN IF t.kind = "junk" THEN Len(t.text)
       ELSE IF nested
       THEN (2 * t.depth + open + 3) + Len(t.text) + (2 * t.depth + Len(t.name) + 4)
       ELSE IF t.text = "" THEN 2 * t.depth + open + 4
       ELSE 2 * t.depth + open + 2 + Len(t.text) + Len(t.name) + 4

\* len(arxml_content); the XML declaration and its newline are 39 characters.
CharLen(text) ==
    (IF text.decl THEN 39 ELSE 0)
      + SumTo([ i \in 1..Len(text.toks) |-> TokLen(text.toks, i) ], Len(text.toks))

MinimalLength == 500

\* A variant of the report in which a warning, too, makes a document invalid.
Report_strict(errors, warnings, recommendations, elementCount) ==
    [valid |-> Len(errors) = 0 /\ Len(warnings) = 0, errors |-> errors,
     warnings |-> warnings, recommendations |-> recommendations,
     elementCount |-> elementCount]

Report(errors, warnings, recommendations, elementCount) ==
    [valid |-> Len(errors) = 0, errors |-> errors, warnings |-> warnings,
     recommendations |-> recommendations, elementCount |-> elementCount]

\* The texts of the SHORT-NAME elements the uniqueness check collects.
ShortNames(h) ==
    LET qualified == FindAll(h, 1, QName(AutosarNs, "SHORT-NAME"))
    IN Bind(IF qualified = <<>> THEN FindAll(h, 1, "SHORT-NAME") ELSE qualified,
            LAMBDA found : [ i \in 1..Len(found) |-> h[found[i]].text ] \o <<>>)

\* set([name for name in short_names if short_names.count(name) > 1])
Duplicates(short_names0) ==
    Bind(short_names0, LAMBDA short_names :
        { short_names[i] : i \in { j \in 1..Len(short_names) :
              \E k \in 1..Len(short_names) : k # j /\ short_names[k] = short_names[j] } })

\* The orders in which a set can be iterated.
Orderings(S) ==
    { f \in [1..Cardinality(S) -> S] : \A i, j \in 1..Cardinality(S) : f[i] = f[j] => i = j }

\* ', '.join(names)
RECURSIVE Join(_)
Join(names) ==
    IF names = <<>> THEN ""
    ELSE IF Len(names) = 1 THEN names[1]
    ELSE names[1] \o ", " \o Join(Tail(names))

\* A root tag the validator accepts (line 251), as stated and with the
\* namespace-qualified form forgotten.
IsAutosarTagUnqualifiedOnly(tag) == tag = "AUTOSAR"

IsAutosarTag(tag) == tag = "AUTOSAR" \/ EndsWith(tag, "}AUTOSAR")

\* The checks of validate_arxml on the parsed tree h (lines 249-289).
Checks(arxml_content, h, order) ==
    LET root == h[1]
        errors == IF ~IsAutosarTag(root.tag)
                  THEN << "Root element must be <AUTOSAR>" >> ELSE <<>>
        warnings1 == IF FindAll(h, 1, QName(AutosarNs, "AR-PACKAGES")) = <<>>
                        /\ FindAll(h, 1, "AR-PACKAGES") = <<>>
                     THEN << "No AR-PACKAGES found in configuration" >> ELSE <<>>
        warnings2 == IF ~Contains(root.nsdef, AutosarNs)
                     THEN Append(warnings1, "Standard AUTOSAR namespace not declared")
                     ELSE warnings1
        recommendations ==
            (IF CharLen(arxml_content) < MinimalLength
             THEN << "Configuration seems minimal; consider adding more modules" >>
             ELSE <<>>)
            \o << "Consider adding ADMIN-DATA section with revision history",
                  "Verify parameter values against ECU hardware specifications" >>
        elementCount == Len(Descendants(h, 1))
    IN Bind(Duplicates(ShortNames(h)), LAMBDA duplicates :
          IF "" \in duplicates
          \* join meets a None text: TypeError, caught by "except Exception"
          THEN Report(Append(errors, "Validation error: sequence item 0: "
                                       \o "expected str instance, NoneType found"),
                      warnings2, <<>>, elementCount)
          ELSE Report(errors,
                      IF duplicates # {}
                      THEN Append(warnings2,
                                  "Duplicate SHORT-NAMEs found: " \o Join(order))
                      ELSE warnings2,
                      recommendations, elementCount))

\* A variant of validate_arxml that goes on to the length check after a
\* parse failure.
validate_arxml_recommends_always(arxml_content, order) ==
    IF ParseError(arxml_content) # ""
    THEN Report(<< "XML syntax error: " \o ParseError(arxml_content) >>, <<>>,
                IF CharLen(arxml_content) < MinimalLength
                THEN << "Configuration seems minimal; consider adding more modules" >>
                ELSE <<>>, 0)
    ELSE Bind(Parse(arxml_content), LAMBDA h : Checks(arxml_content, h, order))

\* validate_arxml; order is the order in which join iterates the set of
\* duplicates, which the language leaves open.
validate_arxml(arxml_content, order) ==
    IF ParseError(arxml_content) # ""
    THEN Report(<< "XML syntax error: " \o ParseError(arxml_content) >>, <<>>, <<>>, 0)
    ELSE Bind(Parse(arxml_content), LAMBDA h : Checks(arxml_content, h, order))

\* The iteration orders open to a call of validate_arxml on this content.
JoinOrders(arxml_content) ==
    IF ParseError(arxml_content) # "" THEN { <<>> }
    ELSE Bind(Parse(arxml_content), LAMBDA h : Orderings(Duplicates(ShortNames(h))))

(***************************************************************************)
(* Merger                                                                  *)
(***************************************************************************)
\* The nodes of a parsed fragment placed in the heap after those of h.
Graft(h, frag) ==
    h \o [ i \in 1..Len(frag) |->
             [frag[i] EXCEPT !.parent = IF @ = 0 THEN 0 ELSE @ + Len(h),
                             !.kids = [ k \in 1..Len(@) |-> @[k] + Len(h) ] \o <<>>] ]

Without(seq, x) == SelectSeq(seq, LAMBDA y : y # x)

\* A variant of append that leaves the child in its old parent's list of
\* children as well.
AppendChild_keep_old(h0, parent, child) ==
    Bind(h0, LAMBDA h :
        [h EXCEPT ![parent].kids = Append(@, child), ![child].parent = parent])

\* parent.append(child): child leaves its old parent and becomes the last
\* child of parent.  (A moved node keeps its namespace; when the text is
\* written it needs no declaration of its own, the root's serving it.)
AppendChild(h0, parent, child) ==
    Bind(h0, LAMBDA h :
        LET old == h[child].parent
            h1 == IF old = 0 THEN h ELSE [h EXCEPT ![old].kids = Without(@, child)]
        IN [h1 EXCEPT ![parent].kids = Append(@, child), ![child].parent = parent])

\* A variant of the loop that leaves out a package whose short name a child
\* of the parent already has.
RECURSIVE AppendAll_skip_known(_, _, _)
AppendAll_skip_known(h0, parent, pkgs) ==
    Bind(h0, LAMBDA h :
        IF pkgs = <<>> THEN h
        ELSE LET name(node) ==
                     { h[k].text : k \in { h[node].kids[i] : i \in 1..Len(h[node].kids) }
                                          \cap { k \in 1..Len(h) :
                                                   LocalName(h[k].tag) = "SHORT-NAME" } }
                 known == UNION { name(h[parent].kids[i]) : i \in 1..Len(h[parent].kids) }
             IN IF name(Head(pkgs)) \cap known # {}
                THEN AppendAll_skip_known(h, parent, Tail(pkgs))
                ELSE AppendAll_skip_known(AppendChild(h, parent, Head(pkgs)),
                                          parent, Tail(pkgs)))

\* for pkg in module_packages: ecu_package.append(pkg)
RECURSIVE AppendAll(_, _, _)
AppendAll(h0, parent, pkgs) ==
    Bind(h0, LAMBDA h :
        IF pkgs = <<>> THEN h
        ELSE AppendAll(AppendChild(h, parent, Head(pkgs)), parent, Tail(pkgs)))

\* not module_arxml: the empty string.
IsEmptyString(text) == ~text.decl /\ text.toks = <<>>

\* A variant of the search that takes the module's whole document.
ModulePackages_whole_document(h, module_root) == << module_root >>

\* The packages of a parsed module (lines 333-335).
ModulePackages(h, module_root) ==
    LET qualified == FindAll(h, module_root, QName(AutosarNs, "AR-PACKAGE"))
    IN IF qualified = <<>> THEN FindAll(h, module_root, "AR-PACKAGE") ELSE qualified

\* The body of the loop for one module.
MergeModule(s0, module) ==
    IF IsEmptyString(module.arxml) THEN s0
    ELSE IF ParseError(module.arxml) # ""
    THEN [s0 EXCEPT !.log = Append(@, "Failed to merge module " \o module.type \o ": "
                                        \o ParseError(module.arxml))]
    ELSE Bind(s0, LAMBDA s :
           Bind(Graft(s.h, Parse(module.arxml)), LAMBDA h :
             Bind(ModulePackages(h, Len(s.h) + 1), LAMBDA module_packages :
               [s EXCEPT !.h = AppendAll(h, s.v["ecu_package"], module_packages)])))

\* A variant of the loop that gives up at the first module that fails to
\* parse.
RECURSIVE MergeModules_until_failure(_, _)
MergeModules_until_failure(s0, modules) ==
    Bind(s0, LAMBDA s :
        IF modules = <<>> THEN s
        ELSE IF ~IsEmptyString(Head(modules).arxml) /\ ParseError(Head(modules).arxml) # ""
        THEN MergeModule(s, Head(modules))
        ELSE MergeModules_until_failure(MergeModule(s, Head(modules)), Tail(modules)))

\* for module in modules
RECURSIVE MergeModules(_, _)
MergeModules(s0, modules) ==
    Bind(s0, LAMBDA s :
        IF modules = <<>> THEN s
        ELSE MergeModules(MergeModule(s, Head(modules)), Tail(modules)))

\* The function up to the loop (lines 308-318).
MergeHead(project_name, ecu_name, now) ==
    LET s0 == create_root(ARXMLGenerator(DefaultVersion), "root")
        s1 == add_admin_data(s0, "root", "1.0.0", now)
        s2 == create_ar_package(s1, "ecu_package", "root", project_name)
        s3 == SubElement(s2, "elements", "ecu_package", "ELEMENTS", "")
        s4 == SubElement(s3, "ecu_instance", "elements", "ECU-INSTANCE", "")
    IN SubElement(s4, "_", "ecu_instance", "SHORT-NAME", ecu_name)

\* merge_configurations: the text returned and the warnings logged.
merge_configurations(modules, project_name, ecu_name, now) ==
    Bind(MergeModules(MergeHead(project_name, ecu_name, now), modules), LAMBDA s :
            [arxml |-> to_string(s.h, s.v["root"]), log |-> s.log])

(***************************************************************************)
(* Request handlers of app.py                                              *)
(***************************************************************************)
CanRequired == << "ecuType", "baudrate", "messageObjects" >>
NvmRequired == << "blockCount", "blockSize", "writeStrategy" >>

\* for field in required: if field not in params: the first such field, "" if none.
FirstMissing(required, params) ==
    LET missing == { i \in 1..Len(required) : ~Has(params, required[i]) }
    IN IF missing = {} THEN ""
       ELSE required[CHOOSE i \in missing : \A j \in missing : i <= j]

Response(status, error, text, built) ==
    [status |-> status, error |-> error, arxml |-> text, built |-> built]

\* generate_can_config_endpoint
generate_can_config_endpoint(params, now) ==
    LET field == FirstMissing(CanRequired, params)
        defaulted == [params EXCEPT
            !.errorHandling = IF Has(params, "errorHandling") THEN @ ELSE TRUE,
            !.wakeupSupport = IF Has(params, "wakeupSupport") THEN @ ELSE FALSE,
            !.has = @ \cup {"errorHandling", "wakeupSupport"}]
        out == generate_can_config(defaulted, now)
    IN IF field # ""
       THEN Response(400, "Missing required field: " \o field, EmptyString, 0)
       ELSE IF out.raised
       THEN Response(500, out.exc, out.arxml, out.built)
       ELSE Response(200, "", out.arxml, out.built)

\* generate_nvm_config_endpoint
generate_nvm_config_endpoint(params, now) ==
    LET field == FirstMissing(NvmRequired, params)
        defaulted == [params EXCEPT
            !.crcProtection = IF Has(params, "crcProtection") THEN @ ELSE TRUE,
            !.redundancy = IF Has(params, "redundancy") THEN @ ELSE FALSE,
            !.wearLeveling = IF Has(params, "wearLeveling") THEN @ ELSE TRUE,
            !.has = @ \cup {"crcProtection", "redundancy", "wearLeveling"}]
        out == generate_nvm_config(defaulted, now)
    IN IF field # ""
       THEN Response(400, "Missing required field: " \o field, EmptyString, 0)
       ELSE IF out.raised
       THEN Response(500, out.exc, out.arxml, out.built)
       ELSE Response(200, "", out.arxml, out.built)

(***************************************************************************)
(* The inputs the calls are made with                                      *)
(***************************************************************************)
EcuTypes == {"powertrain", "body", "chassis", "telematics", "gateway"}
Baudrates == {125, 250, 500, 1000}
OtherBaudrates == {0, 800}
WriteStrategies == {"immediate", "deferred", "triggered"}
BlockSizes == {1, 16, 300}

\* Readings of the UTC clock, as add_admin_data formats them.
Clock == {"2026-01-01T00:00:00", "2026-06-30T23:59:59"}

CanFields == {"ecuType", "baudrate", "messageObjects", "errorHandling", "wakeupSupport"}
NvmFields == {"blockCount", "blockSize", "writeStrategy", "crcProtection",
              "redundancy", "wearLeveling"}

\* The JSON bodies posted to the endpoints: any set of keys may be there.
CanRequests ==
    [ecuType : {"powertrain"}, baudrate : {500}, messageObjects : {0, 2},
     errorHandling : {TRUE}, wakeupSupport : {TRUE}, has : SUBSET CanFields]

NvmRequests ==
    [blockCount : {0, 2}, blockSize : {16}, writeStrategy : {"immediate"},
     crcProtection : {TRUE}, redundancy : {TRUE}, wearLeveling : {FALSE},
     has : SUBSET NvmFields]

\* The dictionaries the generators are called with: every field present, and
\* the dictionaries of the requests.
CanParams ==
    [ecuType : EcuTypes, baudrate : Baudrates \cup OtherBaudrates,
     messageObjects : 0..MaxObjects, errorHandling : BOOLEAN,
     wakeupSupport : BOOLEAN, has : {CanFields}]
    \cup CanRequests

NvmParams ==
    [blockCount : 0..MaxBlocks, blockSize : BlockSizes,
     writeStrategy : WriteStrategies \cup {"lazy"}, crcProtection : BOOLEAN,
     redundancy : BOOLEAN, wearLeveling : BOOLEAN, has : {NvmFields}]
    \cup NvmRequests

\* The contract of the generators' parameters (the tool schemas of app.py).
WellFormedCan(params) ==
    /\ params.has \in {CanFields, CanFields \ {"errorHandling"},
                       CanFields \ {"wakeupSupport"},
                       CanFields \ {"errorHandling", "wakeupSupport"}}
    /\ params.ecuType \in EcuTypes
    /\ params.baudrate \in Baudrates
    /\ params.messageObjects \in 1..128

WellFormedNvm(params) ==
    /\ {"blockCount", "blockSize", "writeStrategy"} \subseteq params.has
    /\ params.blockCount \in 1..256
    /\ params.blockSize \in 1..65535
    /\ params.writeStrategy \in WriteStrategies

E(name, xmlns, text, depth) == ElemTok(name, xmlns, "", text, depth)

Text(toks) == [decl |-> FALSE, toks |-> toks]

\* Markup that is not well formed.
NotXml == Text(<< JunkTok("<not-xml") >>)

\* A second element after the root element.
TwoRoots == Text(<< E("AUTOSAR", AutosarNs, "", 0), E("AUTOSAR", AutosarNs, "", 0) >>)

\* A well-formed document with another root element and no namespace.
OtherRoot == Text(<< E("CONFIG", "", "", 0), E("SHORT-NAME", "", "x", 1) >>)

\* An AUTOSAR document in which two elements carry the short name "Dup".
DuplicateNames ==
    Text(<< E("AUTOSAR", AutosarNs, "", 0), E("AR-PACKAGES", "", "", 1),
            E("AR-PACKAGE", "", "", 2), E("SHORT-NAME", "", "Dup", 3),
            E("AR-PACKAGE", "", "", 2), E("SHORT-NAME", "", "Dup", 3) >>)

\* Two duplicated short names, "A" and "B".
TwoDuplicates ==
    Text(<< E("AUTOSAR", AutosarNs, "", 0), E("AR-PACKAGES", "", "", 1),
            E("AR-PACKAGE", "", "", 2), E("SHORT-NAME", "", "A", 3),
            E("AR-PACKAGE", "", "", 2), E("SHORT-NAME", "", "B", 3),
            E("AR-PACKAGE", "", "", 2), E("SHORT-NAME", "", "A", 3),
            E("AR-PACKAGE", "", "", 2), E("SHORT-NAME", "", "B", 3) >>)

\* Two SHORT-NAME elements without text.
EmptyNames ==
    Text(<< E("AUTOSAR", AutosarNs, "", 0), E("AR-PACKAGES", "", "", 1),
            E("AR-PACKAGE", "", "", 2), E("SHORT-NAME", "", "", 3),
            E("AR-PACKAGE", "", "", 2), E("SHORT-NAME", "", "", 3) >>)

\* A document without namespace and with no package container.
BareRoot == Text(<< E("AUTOSAR", "", "", 0), E("ADMIN-DATA", "", "", 1) >>)

\* A root without namespace; one package declares the AUTOSAR namespace for
\* itself, two others do not and carry the short name "Dup".
MixedNames ==
    Text(<< E("AUTOSAR", "", "", 0), E("AR-PACKAGES", "", "", 1),
            E("AR-PACKAGE", AutosarNs, "", 2), E("SHORT-NAME", "", "A", 3),
            E("AR-PACKAGE", "", "", 2), E("SHORT-NAME", "", "Dup", 3),
            E("AR-PACKAGE", "", "", 2), E("SHORT-NAME", "", "Dup", 3) >>)

\* The short name "Dup" once in the AUTOSAR namespace and once in none.
CrossNames ==
    Text(<< E("AUTOSAR", "", "", 0), E("AR-PACKAGES", "", "", 1),
            E("AR-PACKAGE", AutosarNs, "", 2), E("SHORT-NAME", "", "Dup", 3),
            E("AR-PACKAGE", "", "", 2), E("SHORT-NAME", "", "Dup", 3) >>)

\* A default namespace that is not the AUTOSAR one but contains its text.
LongerNamespace ==
    Text(<< E("AUTOSAR", AutosarNs \o "/extended", "", 0),
            E("AR-PACKAGES", "", "", 1),
            E("AR-PACKAGE", "", "", 2), E("SHORT-NAME", "", "P", 3) >>)

\* A default namespace that has nothing of the AUTOSAR one.
ForeignNamespace ==
    Text(<< E("AUTOSAR", "urn:example", "", 0), E("AR-PACKAGES", "", "", 1),
            E("AR-PACKAGE", "", "", 2), E("SHORT-NAME", "", "P", 3) >>)

\* The root element alone.
RootOnly == Text(<< E("AUTOSAR", AutosarNs, "", 0) >>)

ExternalTexts ==
    {EmptyString, NotXml, TwoRoots, OtherRoot, DuplicateNames, TwoDuplicates,
     EmptyNames, BareRoot, MixedNames, CrossNames, LongerNamespace,
     ForeignNamespace, RootOnly}

\* Fragments handed to the merger.
CanFragment ==
    generate_can_config(
        [ecuType |-> "powertrain", baudrate |-> 500, messageObjects |-> 1,
         errorHandling |-> FALSE, wakeupSupport |-> FALSE, has |-> CanFields],
        "2026-01-01T00:00:00").arxml

\* Namespace-qualified: administrative data under the root, a package "Outer"
\* that holds administrative data of its own and a nested package "Inner".
NestedFragment ==
    Text(<< E("AUTOSAR", AutosarNs, "", 0),
            E("ADMIN-DATA", "", "", 1),
            E("AR-PACKAGES", "", "", 1),
            E("AR-PACKAGE", "", "", 2), E("SHORT-NAME", "", "Outer", 3),
            E("ADMIN-DATA", "", "", 3),
            E("AR-PACKAGES", "", "", 3),
            E("AR-PACKAGE", "", "", 4), E("SHORT-NAME", "", "Inner", 5) >>)

\* No namespace declared: its package is found by the unqualified search.
PlainFragment ==
    Text(<< E("AUTOSAR", "", "", 0),
            E("ADMIN-DATA", "", "", 1),
            E("AR-PACKAGES", "", "", 1),
            E("AR-PACKAGE", "", "", 2), E("SHORT-NAME", "", "Plain", 3),
            E("ELEMENTS", "", "", 3) >>)

Modules ==
    { [type |-> "Empty", arxml |-> EmptyString],
      [type |-> "Broken", arxml |-> NotXml],
      [type |-> "CAN", arxml |-> CanFragment],
      [type |-> "Nested", arxml |-> NestedFragment],
      [type |-> "Plain", arxml |-> PlainFragment] }

ModuleLists == UNION { [1..n -> Modules] : n \in 0..MaxModules }

ProjectNames == {"Proj", "CanConfiguration"}
EcuNames == {"ECU1", "Outer"}
PackageNames == {"Pkg", "Other"}

(***************************************************************************)
(* The state machine: a caller makes one call at a time.  call is the last *)
(* call and its arguments, ret what it returned or raised, arxml the       *)
(* document text the caller holds, tree the tree a caller of the           *)
(* ARXMLGenerator methods is building (<<>> when there is none).  The      *)
(* engine keeps nothing between calls: a caller that is done drops what it *)
(* holds (Discard) before it starts afresh.                                *)
(***************************************************************************)
Idle == call.op = "none"

\* The calls that leave the caller with a document text.
Producers ==
    {"generate_can_config", "generate_nvm_config", "generateCanConfig",
     "generateNvmConfig", "merge_configurations", "to_string"}

\* The request threads of the server (app.run(threaded=True)).
Threads == {"t1", "t2"}

\* A thread that serves no call.
IdleThread == [pc |-> "idle"]

Init ==
    /\ call = [op |-> "none"]
    /\ ret = [op |-> "none"]
    /\ arxml = EmptyString
    /\ tree = <<>>
    /\ mem = <<>>
    /\ thr = [ t \in Threads |-> IdleThread ]

GenerateCanConfig ==
    /\ Idle
    /\ \E params \in CanParams, now \in Clock :
        /\ call' = [op |-> "generate_can_config", params |-> params, now |-> now]
        /\ ret' = generate_can_config(params, now)
        /\ arxml' = ret'.arxml
        /\ tree' = <<>>
    /\ UNCHANGED <<mem, thr>>

GenerateNvmConfig ==
    /\ Idle
    /\ \E params \in NvmParams, now \in Clock :
        /\ call' = [op |-> "generate_nvm_config", params |-> params, now |-> now]
        /\ ret' = generate_nvm_config(params, now)
        /\ arxml' = ret'.arxml
        /\ tree' = <<>>
    /\ UNCHANGED <<mem, thr>>

GenerateCanConfigEndpoint ==
    /\ Idle
    /\ \E params \in CanRequests, now \in Clock :
        /\ call' = [op |-> "generateCanConfig", params |-> params, now |-> now]
        /\ ret' = generate_can_config_endpoint(params, now)
        /\ arxml' = ret'.arxml
        /\ tree' = <<>>
    /\ UNCHANGED <<mem, thr>>

GenerateNvmConfigEndpoint ==
    /\ Idle
    /\ \E params \in NvmRequests, now \in Clock :
        /\ call' = [op |-> "generateNvmConfig", params |-> params, now |-> now]
        /\ ret' = generate_nvm_config_endpoint(params, now)
        /\ arxml' = ret'.arxml
        /\ tree' = <<>>
    /\ UNCHANGED <<mem, thr>>

\* The caller validates the text the last call left it with, or, when it
\* holds none, a text written elsewhere.
ValidateArxml ==
    /\ Idle \/ call.op \in Producers
    /\ \E content \in IF Idle THEN ExternalTexts ELSE {arxml} :
        \E order \in JoinOrders(content) :
            /\ call' = [op |-> "validate_arxml", content |-> content, from |-> call]
            /\ ret' = validate_arxml(content, order)
            /\ arxml' = content
            /\ tree' = <<>>
    /\ UNCHANGED <<mem, thr>>

MergeConfigurations ==
    /\ Idle
    /\ \E modules \in ModuleLists, project_name \in ProjectNames,
          ecu_name \in EcuNames, now \in Clock :
        /\ call' = [op |-> "merge_configurations", modules |-> modules,
                    project_name |-> project_name, ecu_name |-> ecu_name, now |-> now]
        /\ ret' = merge_configurations(modules, project_name, ecu_name, now)
        /\ arxml' = ret'.arxml
        /\ tree' = <<>>
    /\ UNCHANGED <<mem, thr>>

CalculateCanTiming ==
    /\ Idle
    /\ \E baudrate_kbps \in Baudrates \cup OtherBaudrates \cup {-1, 499, 501, 100000} :
        /\ call' = [op |-> "calculate_can_timing", baudrate_kbps |-> baudrate_kbps]
        /\ ret' = calculate_can_timing(baudrate_kbps)
        /\ arxml' = EmptyString
        /\ tree' = <<>>
    /\ UNCHANGED <<mem, thr>>

\* ARXMLGenerator(version).create_root() and add_admin_data on it.
CreateRoot ==
    /\ Idle
    /\ \E version \in {"4.2.2", "4.4.0", "5.0.0"}, now \in Clock :
        /\ call' = [op |-> "create_root", version |-> version, now |-> now]
        /\ tree' = add_admin_data(create_root(ARXMLGenerator(version), "root"),
                                  "root", "1.0.0", now).h
        /\ ret' = [node |-> 1]
        /\ arxml' = EmptyString
    /\ UNCHANGED <<mem, thr>>

PackageNodes(h) == { i \in 1..Len(h) : h[i].tag = "AR-PACKAGE" }

\* create_ar_package under the root or under a package of the tree.
CreateArPackage ==
    /\ call.op \in {"create_root", "create_ar_package"}
    /\ Cardinality(PackageNodes(tree)) < MaxPackages
    /\ \E parent \in {1} \cup PackageNodes(tree), short_name \in PackageNames :
        /\ call' = [op |-> "create_ar_package", parent |-> parent,
                    short_name |-> short_name]
        /\ LET s == create_ar_package([h |-> tree, v |-> ("parent" :> parent),
                                        log |-> <<>>],
                                       "ar_package", "parent", short_name)
           IN /\ tree' = s.h
              /\ ret' = [node |-> s.v["ar_package"]]
        /\ arxml' = EmptyString
    /\ UNCHANGED <<mem, thr>>

\* to_string of the tree under construction.
ToStringTree ==
    /\ call.op \in {"create_root", "create_ar_package"}
    /\ call' = [op |-> "to_string"]
    /\ ret' = [arxml |-> to_string(tree, 1)]
    /\ arxml' = to_string(tree, 1)
    /\ tree' = tree
    /\ UNCHANGED <<mem, thr>>

\* The caller is done with what it holds.
Discard ==
    /\ ~Idle
    /\ call' = [op |-> "none"]
    /\ ret' = [op |-> "none"]
    /\ arxml' = EmptyString
    /\ tree' = <<>>
    /\ UNCHANGED <<mem, thr>>

Next ==
    \/ GenerateCanConfig
    \/ GenerateNvmConfig
    \/ GenerateCanConfigEndpoint
    \/ GenerateNvmConfigEndpoint
    \/ ValidateArxml
    \/ MergeConfigurations
    \/ CalculateCanTiming
    \/ CreateRoot
    \/ CreateArPackage
    \/ ToStringTree
    \/ Discard

Spec == Init /\ [][Next]_vars

(***************************************************************************)
(* Calls in flight at the same time.  The server runs its handlers in      *)
(* threads; the statements of the calls interleave, and every node any of  *)
(* them makes is allocated in the one heap of the process.  A call's local *)
(* variables name its nodes in that heap.  A step is the part of a         *)
(* function up to its loop, one iteration of the loop, the part after the  *)
(* loop, or the return statement.                                          *)
(***************************************************************************)
\* A variant of the allocation in which the root is made once for the
\* process and every later call is handed that one.
Allocate_shared_root(h0, fresh) ==
    Bind(h0, LAMBDA h :
        [h |-> Graft(h, fresh.h),
         v |-> [ x \in DOMAIN fresh.v |->
                   IF x = "root" /\ h # <<>> THEN 1 ELSE fresh.v[x] + Len(h) ],
         log |-> fresh.log])

\* generator = ARXMLGenerator(); root = generator.create_root(), and the
\* nodes made under it: the nodes of a call are new nodes of the heap, and
\* the call's variables name those.
Allocate(h0, fresh) ==
    Bind(h0, LAMBDA h :
        [h |-> Graft(h, fresh.h),
         v |-> [ x \in DOMAIN fresh.v |-> fresh.v[x] + Len(h) ],
         log |-> fresh.log])

\* The tree under a node of the heap as a heap of its own, the node first
\* and its descendants in document order.
Subtree(h0, root) ==
    Bind(h0, LAMBDA h :
      Bind(<< root >> \o Descendants(h, root), LAMBDA ids :
        LET pos(id) == CHOOSE k \in 1..Len(ids) : ids[k] = id
        IN [ k \in 1..Len(ids) |->
               [h[ids[k]] EXCEPT
                  !.parent = IF k = 1 THEN 0 ELSE pos(@),
                  !.kids = [ j \in 1..Len(@) |-> pos(@[j]) ] \o <<>>] ] \o <<>>))

\* The calls the threads make.
CanJob ==
    [op |-> "generate_can_config",
     params |-> [ecuType |-> "body", baudrate |-> 250, messageObjects |-> 2,
                 errorHandling |-> TRUE, wakeupSupport |-> TRUE, has |-> CanFields]]

NvmJob ==
    [op |-> "generate_nvm_config",
     params |-> [blockCount |-> 1, blockSize |-> 16, writeStrategy |-> "deferred",
                 crcProtection |-> TRUE, redundancy |-> FALSE,
                 wearLeveling |-> TRUE, has |-> NvmFields]]

MergeJob ==
    [op |-> "merge_configurations",
     modules |-> << [type |-> "Nested", arxml |-> NestedFragment],
                    [type |-> "Broken", arxml |-> NotXml] >>,
     project_name |-> "Proj", ecu_name |-> "ECU1"]

ValidateJob ==
    [op |-> "validate_arxml", content |-> DuplicateNames, order |-> << "Dup" >>]

Jobs == {CanJob, NvmJob, MergeJob, ValidateJob}

\* What the call returns when no other call is in flight.
Alone(job, now) ==
    CASE job.op = "generate_can_config" -> generate_can_config(job.params, now).arxml
      [] job.op = "generate_nvm_config" -> generate_nvm_config(job.params, now).arxml
      [] job.op = "merge_configurations" ->
             merge_configurations(job.modules, job.project_name, job.ecu_name, now).arxml
      [] job.op = "validate_arxml" -> validate_arxml(job.content, job.order)

\* The part of the function before its loop, on a heap of its own.
HeadOf(job, now) ==
    CASE job.op = "generate_can_config" -> CanHead(job.params, now)
      [] job.op = "generate_nvm_config" -> NvmHead(now)
      [] job.op = "merge_configurations" ->
             MergeHead(job.project_name, job.ecu_name, now)
      [] job.op = "validate_arxml" ->
             [h |-> Parse(job.content), v |-> ("root" :> 1), log |-> <<>>]

\* The number of iterations of the loop.
Iterations(job) ==
    CASE job.op = "generate_can_config" -> job.params.messageObjects
      [] job.op = "generate_nvm_config" -> job.params.blockCount
      [] job.op = "merge_configurations" -> Len(job.modules)
      [] job.op = "validate_arxml" -> 0

\* Iteration i of the loop.
IterationOf(job, s, i) ==
    CASE job.op = "generate_can_config" -> HwObject(s, i)
      [] job.op = "generate_nvm_config" ->
             NvmBlockTail(NvmBlockHead(s, job.params, i), job.params, i)
      [] job.op = "merge_configurations" -> MergeModule(s, job.modules[i + 1])

\* The statements between the loop and the return statement.
AfterLoop(job, s) ==
    CASE job.op = "generate_can_config" ->
             Bind(IF Get(job.params, "errorHandling", TRUE) THEN ErrorHandling(s) ELSE s,
                  LAMBDA s1 : IF Get(job.params, "wakeupSupport", FALSE)
                              THEN WakeupSupport(s1) ELSE s1)
      [] job.op = "generate_nvm_config" ->
             IF Get(job.params, "wearLeveling", TRUE) THEN WearLeveling(s) ELSE s
      [] job.op = "merge_configurations" -> s

\* The frame of a thread: the heap and the thread's variables.
Frame(t) == [h |-> mem, v |-> thr[t].v, log |-> thr[t].log]

\* A thread takes a call and runs it up to its loop.
Begin(t) ==
    /\ thr[t].pc = "idle"
    /\ \E job \in Jobs, now \in Clock :
          LET s == Allocate(mem, HeadOf(job, now))
          IN /\ mem' = s.h
             /\ thr' = [thr EXCEPT ![t] =
                          [pc |-> "loop", job |-> job, now |-> now, i |-> 0,
                           v |-> s.v, log |-> s.log]]
    /\ UNCHANGED <<call, ret, arxml, tree>>

Iterate(t) ==
    /\ thr[t].pc = "loop"
    /\ thr[t].i < Iterations(thr[t].job)
    /\ LET s == IterationOf(thr[t].job, Frame(t), thr[t].i)
       IN /\ mem' = s.h
          /\ thr' = [thr EXCEPT ![t].v = s.v, ![t].log = s.log, ![t].i = @ + 1]
    /\ UNCHANGED <<call, ret, arxml, tree>>

LeaveLoop(t) ==
    /\ thr[t].pc = "loop"
    /\ thr[t].job.op # "validate_arxml"
    /\ thr[t].i = Iterations(thr[t].job)
    /\ LET s == AfterLoop(thr[t].job, Frame(t))
       IN /\ mem' = s.h
          /\ thr' = [thr EXCEPT ![t].v = s.v, ![t].log = s.log, ![t].pc = "return"]
    /\ UNCHANGED <<call, ret, arxml, tree>>

\* return generator.to_string(root)
Return(t) ==
    /\ thr[t].pc = "return"
    /\ thr' = [thr EXCEPT ![t] =
                 [pc |-> "done", job |-> @.job, now |-> @.now, v |-> @.v,
                  result |-> to_string(mem, @.v["root"])]]
    /\ UNCHANGED <<mem, call, ret, arxml, tree>>

\* The checks of validate_arxml on the tree the call parsed.
Check(t) ==
    /\ thr[t].pc = "loop"
    /\ thr[t].job.op = "validate_arxml"
    /\ thr' = [thr EXCEPT ![t] =
                 [pc |-> "done", job |-> @.job, now |-> @.now, v |-> @.v,
                  result |-> Checks(@.job.content, Subtree(mem, @.v["root"]),
                                    @.job.order)]]
    /\ UNCHANGED <<mem, call, ret, arxml, tree>>

NextConcurrent ==
    \E t \in Threads :
        \/ Begin(t)
        \/ Iterate(t)
        \/ LeaveLoop(t)
        \/ Return(t)
        \/ Check(t)

SpecConcurrent == Init /\ [][NextConcurrent]_vars

(***************************************************************************)
(* Helpers of the properties                                               *)
(***************************************************************************)
Q(local) == QName(AutosarNs, local)

\* The text of the first child with that tag; "?" when there is none.
ChildText(h, node, tag) ==
    IF Find(h, node, tag) = 0 THEN "?" ELSE h[Find(h, node, tag)].text

Numerals == "0123456789abcdef"

IsNumeral(str, base) ==
    /\ Len(str) > 0
    /\ \A i \in 1..Len(str) :
          \E d \in 0..(base - 1) : SubSeq(Numerals, d + 1, d + 1) = SubSeq(str, i, i)

\* The number a numeral writes in that base.
RECURSIVE NumberIn(_, _)
NumberIn(str, base) ==
    IF Len(str) = 0 THEN 0
    ELSE NumberIn(SubSeq(str, 1, Len(str) - 1), base) * base
           + (CHOOSE d \in 0..(base - 1) :
                  SubSeq(Numerals, d + 1, d + 1) = SubSeq(str, Len(str), Len(str)))

Validated == call.op = "validate_arxml"

(***************************************************************************)
(* C1  Round trip: the report of validate_arxml on the text that           *)
(* generate_can_config returns for well-formed parameters has valid = TRUE *)
(* and elementCount > 0.                                                   *)
(***************************************************************************)
RoundTripCase ==
    /\ Validated
    /\ call.from.op = "generate_can_config"
    /\ WellFormedCan(call.from.params)

C1_RoundTrip == RoundTripCase => ret.valid /\ ret.elementCount > 0

C1_Witness ==
    /\ RoundTripCase
    /\ call.from.params.messageObjects = MaxObjects
    /\ call.from.params.wakeupSupport
    /\ ret.valid

(***************************************************************************)
(* C2  For messageObjects = n the text of generate_can_config holds        *)
(* exactly n CAN-HW-OBJECT entries; the entry at index i is TRANSMIT for   *)
(* even i and RECEIVE for odd i, of identifier type STANDARD, and its      *)
(* identifier is the number 0x100 + i.                                     *)
(***************************************************************************)
CanReturned == call.op = "generate_can_config" /\ ~ret.raised

C2_HwObjects ==
    CanReturned =>
        Bind(Parse(ret.arxml), LAMBDA h :
            LET objs == FindAll(h, 1, Q("CAN-HW-OBJECT"))
            IN /\ Len(objs) = call.params.messageObjects
               /\ \A k \in 1..Len(objs) :
                    /\ ChildText(h, objs[k], Q("OBJECT-TYPE"))
                         = (IF (k - 1) % 2 = 0 THEN "TRANSMIT" ELSE "RECEIVE")
                    /\ ChildText(h, objs[k], Q("ID-TYPE")) = "STANDARD"
                    /\ IsNumeral(ChildText(h, objs[k], Q("CAN-OBJECT-ID")), 10)
                    /\ NumberIn(ChildText(h, objs[k], Q("CAN-OBJECT-ID")), 10)
                         = 256 + (k - 1))

C2_Witness == CanReturned /\ call.params.messageObjects = MaxObjects

(***************************************************************************)
(* C3  For blockCount = n and blockSize = s the text of                    *)
(* generate_nvm_config holds exactly n NVM-BLOCK entries; block i          *)
(* (0-based) has identifier i + 1, length s and the storage address i * s  *)
(* written in hexadecimal.                                                 *)
(***************************************************************************)
NvmReturned == call.op = "generate_nvm_config" /\ ~ret.raised

C3_NvmBlocks ==
    NvmReturned =>
        Bind(Parse(ret.arxml), LAMBDA h :
            LET blocks == FindAll(h, 1, Q("NVM-BLOCK"))
                address(k) == ChildText(h, Find(h, blocks[k], Q("NVM-BLOCK-STORAGE")),
                                        Q("STORAGE-ADDRESS"))
            IN /\ Len(blocks) = call.params.blockCount
               /\ \A k \in 1..Len(blocks) :
                    /\ ChildText(h, blocks[k], Q("NVM-BLOCK-ID")) = ToString(k)
                    /\ ChildText(h, blocks[k], Q("NVM-BLOCK-LENGTH"))
                         = ToString(call.params.blockSize)
                    /\ StartsWith(address(k), "0x")
                    /\ IsNumeral(SubSeq(address(k), 3, Len(address(k))), 16)
                    /\ NumberIn(SubSeq(address(k), 3, Len(address(k))), 16)
                         = (k - 1) * call.params.blockSize)

C3_Witness ==
    /\ NvmReturned
    /\ call.params.blockCount = MaxBlocks
    /\ call.params.blockSize = 300

(***************************************************************************)
(* C4  calculate_can_timing returns {6, 7, 2, 1} for 125, 250 and 500,     *)
(* {5, 6, 2, 1} for 1000, and the 500 kbps tuple for every other integer.  *)
(***************************************************************************)
C4_Timing ==
    call.op = "calculate_can_timing" =>
        ret = IF call.baudrate_kbps = 1000
              THEN [prop_seg |-> 5, phase_seg1 |-> 6, phase_seg2 |-> 2, sjw |-> 1]
              ELSE [prop_seg |-> 6, phase_seg1 |-> 7, phase_seg2 |-> 2, sjw |-> 1]

C4_Witness ==
    /\ call.op = "calculate_can_timing"
    /\ call.baudrate_kbps \notin {125, 250, 500, 1000}
    /\ ret.prop_seg = 6

(***************************************************************************)
(* C5  Every report of validate_arxml has valid = (errors is empty),       *)
(* whatever its warnings and recommendations hold.                         *)
(***************************************************************************)
C5_ValidIffNoErrors == Validated => (ret.valid <=> ret.errors = <<>>)

C5_Witness ==
    /\ Validated
    /\ ret.valid
    /\ ret.warnings # <<>>
    /\ ret.recommendations # <<>>

(***************************************************************************)
(* C6  For a content that does not parse, validate_arxml returns a report  *)
(* with valid = FALSE, exactly one error, which begins "XML syntax error", *)
(* elementCount = 0 and no warnings or recommendations.                    *)
(***************************************************************************)
Unparsable == Validated /\ ParseError(call.content) # ""

C6_ParseFailure ==
    Unparsable =>
        /\ ~ret.valid
        /\ Len(ret.errors) = 1
        /\ StartsWith(ret.errors[1], "XML syntax error")
        /\ ret.elementCount = 0
        /\ ret.warnings = <<>>
        /\ ret.recommendations = <<>>

C6_Witness == Unparsable /\ call.content = NotXml

(***************************************************************************)
(* C7  generate_can_config and generate_nvm_config fail fast: when a       *)
(* required field is missing or a count is outside its range (0, say), the *)
(* call raises before any node of the document is made and returns no      *)
(* text.                                                                   *)
(***************************************************************************)
MalformedCan(params) ==
    \/ ~({"ecuType", "baudrate", "messageObjects"} \subseteq params.has)
    \/ params.messageObjects \notin 1..128

MalformedNvm(params) ==
    \/ ~({"blockCount", "blockSize", "writeStrategy"} \subseteq params.has)
    \/ params.blockCount \notin 1..256

C7_FailFast ==
    (\/ call.op = "generate_can_config" /\ MalformedCan(call.params)
     \/ call.op = "generate_nvm_config" /\ MalformedNvm(call.params))
    => ret.raised /\ ret.built = 0 /\ IsEmptyString(ret.arxml)

(***************************************************************************)
(* C8  merge_configurations returns for every list of fragments: the       *)
(* result is the one of the list without its empty and its unparsable      *)
(* fragments, and the packages of the remaining fragments hang under the   *)
(* project package in the order of the list.                               *)
(***************************************************************************)
Merged == call.op = "merge_configurations"

Usable(module) == ~IsEmptyString(module.arxml) /\ ParseError(module.arxml) = ""

\* The nodes with that local name, in document order.
Elements(h, local) ==
    SelectSeq([ i \in 1..Len(h) |-> i ], LAMBDA i : LocalName(h[i].tag) = local)

\* The children with that local name.
Kids(h, node, local) ==
    SelectSeq(h[node].kids, LAMBDA k : LocalName(h[k].tag) = local)

ShortNameOf(h, node) ==
    IF Kids(h, node, "SHORT-NAME") = <<>> THEN "?"
    ELSE h[Kids(h, node, "SHORT-NAME")[1]].text

NamesOf(h, nodes) == [ k \in 1..Len(nodes) |-> ShortNameOf(h, nodes[k]) ] \o <<>>

\* The names of the packages of the fragments, fragment after fragment.
RECURSIVE FragmentPackageNames(_)
FragmentPackageNames(modules) ==
    IF modules = <<>> THEN <<>>
    ELSE Bind(Parse(Head(modules).arxml), LAMBDA h :
                  NamesOf(h, Elements(h, "AR-PACKAGE")))
         \o FragmentPackageNames(Tail(modules))

\* The first package of a merged document: the project's.
ProjectPackage(h) == Elements(h, "AR-PACKAGE")[1]

C8_BadFragmentsAbsent ==
    Merged =>
        /\ ret.arxml = merge_configurations(SelectSeq(call.modules, Usable),
                                            call.project_name, call.ecu_name,
                                            call.now).arxml
        /\ Bind(Parse(ret.arxml), LAMBDA h :
               NamesOf(h, Kids(h, ProjectPackage(h), "AR-PACKAGE"))
                 = FragmentPackageNames(SelectSeq(call.modules, Usable)))

C8_Witness ==
    /\ Merged
    /\ Len(call.modules) = 2
    /\ call.modules[1].type = "Broken"
    /\ call.modules[2].type = "Nested"
    /\ Len(ret.log) = 1

(***************************************************************************)
(* C9  The document of merge_configurations has exactly one ADMIN-DATA     *)
(* child of the root and exactly one top-level package, named after the    *)
(* project, which holds one ECU-INSTANCE named after the ECU; every        *)
(* package of a fragment is a child of the project package; no root of a   *)
(* fragment and none of the administrative data under a fragment's root is *)
(* in it (administrative data inside a fragment's package stays with the   *)
(* package).                                                               *)
(***************************************************************************)
C9_MergedShape ==
    Merged =>
        Bind(Parse(ret.arxml), LAMBDA h :
            LET top == Kids(h, 1, "AR-PACKAGES")
                project == ProjectPackage(h)
                elements == Kids(h, project, "ELEMENTS")
                admin == Kids(h, 1, "ADMIN-DATA")
                dates == Elements(h, "DATE")
            IN /\ Len(admin) = 1
               /\ Len(top) = 1
               /\ Kids(h, top[1], "AR-PACKAGE") = << project >>
               /\ ShortNameOf(h, project) = call.project_name
               /\ Len(elements) = 1
               /\ Len(Kids(h, elements[1], "ECU-INSTANCE")) = 1
               /\ ShortNameOf(h, Kids(h, elements[1], "ECU-INSTANCE")[1]) = call.ecu_name
               /\ \A k \in 1..Len(Elements(h, "AR-PACKAGE")) :
                     LET pkg == Elements(h, "AR-PACKAGE")[k]
                     IN pkg # project => h[pkg].parent = project
               /\ Elements(h, "AUTOSAR") = << 1 >>
               /\ \A k \in 1..Len(Elements(h, "ADMIN-DATA")) :
                     LET a == Elements(h, "ADMIN-DATA")[k]
                     IN \/ a = admin[1]
                        \/ /\ LocalName(h[h[a].parent].tag) = "AR-PACKAGE"
                           /\ h[h[a].parent].parent = project
               /\ Len(dates) = 1
               /\ h[dates[1]].text = call.now)

C9_Witness ==
    /\ Merged
    /\ Len(call.modules) = 2
    /\ call.modules[1].type = "Nested"
    /\ call.modules[2].type = "CAN"
    /\ call.ecu_name = "Outer"

(***************************************************************************)
(* C10  create_ar_package.  As claimed: after a call the parent has        *)
(* exactly one AR-PACKAGES container and in it exactly one AR-PACKAGE of   *)
(* the short name of the call, a second call returning the first one's     *)
(* package.                                                                *)
(***************************************************************************)
Created == call.op = "create_ar_package"

Containers(h, parent) == Kids(h, parent, "AR-PACKAGES")

\* The packages of that name in the parent's first container.
Named(h, parent, short_name) ==
    IF Containers(h, parent) = <<>> THEN <<>>
    ELSE SelectSeq(Kids(h, Containers(h, parent)[1], "AR-PACKAGE"),
                   LAMBDA pkg : ShortNameOf(h, pkg) = short_name)

Parsed == Validated /\ ParseError(call.content) = ""

\* The texts that two or more of the nodes carry.
Repeated(h, nodes) ==
    { h[nodes[i]].text : i \in { j \in 1..Len(nodes) :
          \E k \in 1..Len(nodes) : k # j /\ h[nodes[k]].text = h[nodes[j]].text } }

DuplicateWarnings(warnings) ==
    SelectSeq(warnings, LAMBDA w : StartsWith(w, "Duplicate SHORT-NAMEs found"))

C11_DuplicatesEverywhere ==
    Parsed =>
        Bind(Parse(call.content), LAMBDA h :
            LET names == Elements(h, "SHORT-NAME")
                found == DuplicateWarnings(ret.warnings)
            IN (\A i \in 1..Len(names) : h[names[i]].text # "") =>
                  IF Repeated(h, names) = {} THEN found = <<>>
                  ELSE /\ Len(found) = 1
                       /\ \A name \in Repeated(h, names) : Contains(found[1], name))

(***************************************************************************)
(* C12  The checks do not cut each other short: for every content that     *)
(* parses, the recommendations of the report hold the revision-history and *)
(* the verify-against-hardware recommendation, and hold the                *)
(* add-more-modules recommendation exactly when the content is shorter     *)
(* than 500 characters.                                                    *)
(***************************************************************************)
Recommends(text) == \E i \in 1..Len(ret.recommendations) : ret.recommendations[i] = text

C12_NoShortCircuit ==
    Parsed =>
        /\ Recommends("Consider adding ADMIN-DATA section with revision history")
        /\ Recommends("Verify parameter values against ECU hardware specifications")
        /\ Recommends("Configuration seems minimal; consider adding more modules")
             <=> CharLen(call.content) < MinimalLength

(***************************************************************************)
(* C13  For every content that parses, the warning that the namespace is   *)
(* not declared is in the report exactly when the default namespace the    *)
(* root declares is not the AUTOSAR namespace URI: when there is none, and *)
(* when it is another URI, one that contains the AUTOSAR URI included.     *)
(* The check adds no error.                                                *)
(***************************************************************************)
C13_NamespaceEquality ==
    Parsed =>
        /\ (\E i \in 1..Len(ret.warnings) :
                ret.warnings[i] = "Standard AUTOSAR namespace not declared")
             <=> Parse(call.content)[1].nsdef # AutosarNs
        /\ \A i \in 1..Len(ret.errors) :
              \/ ret.errors[i] = "Root element must be <AUTOSAR>"
              \/ StartsWith(ret.errors[i], "Validation error")

(***************************************************************************)
(* C14  For every content that parses, elementCount is the number of       *)
(* elements of the parsed tree: every element, at every depth, in any      *)
(* namespace, the root among them.                                         *)
(***************************************************************************)
C14_CountsEveryElement ==
    Parsed => ret.elementCount = Len(Parse(call.content))

(***************************************************************************)
(* C15  The merger is permissive and the validator diagnostic: the text of *)
(* merge_configurations carries the short name of the project, that of the *)
(* ECU and every short name of every fragment as often as they were given, *)
(* none renamed and none dropped; when two of them are the same,           *)
(* validate_arxml on that text names the value in a duplicate warning and  *)
(* still returns valid = TRUE.                                             *)
(***************************************************************************)
MergedThenValidated == Validated /\ call.from.op = "merge_configurations"

\* The short names of the fragments, fragment after fragment.
RECURSIVE FragmentShortNames(_)
FragmentShortNames(modules) ==
    IF modules = <<>> THEN <<>>
    ELSE Bind(Parse(Head(modules).arxml), LAMBDA h :
                  [ k \in 1..Len(Elements(h, "SHORT-NAME")) |->
                        h[Elements(h, "SHORT-NAME")[k]].text ] \o <<>>)
         \o FragmentShortNames(Tail(modules))

Count(seq, x) == Cardinality({ i \in 1..Len(seq) : seq[i] = x })

C15_KeptAndReported ==
    MergedThenValidated =>
        Bind(Parse(call.content), LAMBDA h :
          Bind(<< call.from.project_name, call.from.ecu_name >>
                 \o FragmentShortNames(SelectSeq(call.from.modules, Usable)),
               LAMBDA given :
                 LET names == Elements(h, "SHORT-NAME")
                     kept == [ k \in 1..Len(names) |-> h[names[k]].text ]
                     found == DuplicateWarnings(ret.warnings)
                 IN /\ Len(kept) = Len(given)
                    /\ \A i \in 1..Len(given) : Count(kept, given[i]) = Count(given, given[i])
                    /\ ret.valid
                    /\ (\E i, j \in 1..Len(given) : i # j /\ given[i] = given[j]) =>
                          /\ Len(found) = 1
                          /\ \A i, j \in 1..Len(given) :
                                i # j /\ given[i] = given[j] => Contains(found[1], given[i])))

C15_Witness ==
    /\ MergedThenValidated
    /\ Len(call.from.modules) = 2
    /\ call.from.modules[1].type = "CAN"
    /\ call.from.modules[2].type = "CAN"
    /\ call.from.project_name = "CanConfiguration"
    /\ ret.valid
    /\ Len(DuplicateWarnings(ret.warnings)) = 1

(***************************************************************************)
(* C16  Calls in flight at the same time share no state that changes:      *)
(* however the steps of the calls interleave, a call returns what it       *)
(* returns when it runs alone (its own timestamp given), and no node of    *)
(* one call's tree is in the tree of another.                              *)
(***************************************************************************)
\* The nodes of the tree of a thread's call.
Owned(t) ==
    IF thr[t].pc = "idle" THEN {}
    ELSE {thr[t].v["root"]}
           \cup { Descendants(mem, thr[t].v["root"])[k] :
                    k \in 1..Len(Descendants(mem, thr[t].v["root"])) }

C16_NoSharedState ==
    /\ \A t \in Threads :
          thr[t].pc = "done" => thr[t].result = Alone(thr[t].job, thr[t].now)
    /\ \A t, u \in Threads : t # u => Owned(t) \cap Owned(u) = {}

\* Both calls have returned, and the nodes of one were made between nodes of
\* the other.
C16_Witness ==
    /\ \A t \in Threads : thr[t].pc = "done"
    /\ thr["t1"].job.op = "generate_can_config"
    /\ thr["t2"].job.op = "merge_configurations"
    /\ thr["t1"].now # thr["t2"].now
    /\ \E a, c \in Owned("t1"), b \in Owned("t2") : a < b /\ b < c
    /\ \E a, c \in Owned("t2"), b \in Owned("t1") : a < b /\ b < c

(***************************************************************************)
(* C17  merge_configurations flattens package hierarchies: every           *)
(* AR-PACKAGE of a fragment (the fragment's elements all in one            *)
(* namespace), at whatever depth it was, is a direct child of the project  *)
(* package, in the fragment's document order; a package that was nested in *)
(* another is no longer in it; the number of fragment packages is kept and *)
(* no imported package contains a package.                                 *)
(***************************************************************************)
\* The nodes of that local name beneath a node.
Beneath(h, node, local) ==
    SelectSeq(Descendants(h, node), LAMBDA id : LocalName(h[id].tag) = local)

RECURSIVE FragmentPackageCount(_)
FragmentPackageCount(modules) ==
    IF modules = <<>> THEN 0
    ELSE Len(Elements(Parse(Head(modules).arxml), "AR-PACKAGE"))
           + FragmentPackageCount(Tail(modules))

C17_Flattens ==
    Merged =>
        Bind(Parse(ret.arxml), LAMBDA h :
            LET project == ProjectPackage(h)
                imported == Kids(h, project, "AR-PACKAGE")
                usable == SelectSeq(call.modules, Usable)
            IN /\ Len(imported) = FragmentPackageCount(usable)
               /\ Len(Elements(h, "AR-PACKAGE")) = 1 + FragmentPackageCount(usable)
               /\ \A k \in 1..Len(imported) :
                     /\ Beneath(h, imported[k], "AR-PACKAGE") = <<>>
                     /\ ShortNameOf(h, imported[k]) = FragmentPackageNames(usable)[k]
               /\ \A k \in 1..Len(imported) :
                     k < Len(imported) => imported[k] < imported[k + 1])

C17_Witness ==
    /\ Merged
    /\ Len(call.modules) = 2
    /\ call.modules[1].type = "Plain"
    /\ call.modules[2].type = "Nested"
    /\ Bind(Parse(ret.arxml), LAMBDA h :
           NamesOf(h, Kids(h, ProjectPackage(h), "AR-PACKAGE"))
             = << "Plain", "Outer", "Inner" >>)

====
